---- MODULE Spec2Model ----
(***************************************************************************)
(* Model of src/src/html.rs (monolith): the recursive walker               *)
(* walk_and_embed_assets over an html5ever RcDom tree, the classifiers     *)
(* is_icon / has_protocol and the parent lookup get_parent_node_name.      *)
(*                                                                         *)
(* Strings are sequences of one-character strings, so that prefix tests,   *)
(* lower-casing and regex matching are computed character by character.    *)
(* Opaque blocks of bytes (a base64 payload, a mime type, a markup token)  *)
(* are elements of more than one character: they are never alphanumeric.   *)
(***************************************************************************)
EXTENDS Naturals, Sequences, FiniteSets, TLC

VARIABLES
    cfg,      \* [no_js, no_images]: the read-only options of a walk
    stack,    \* the active calls on documents: <<top-level frame, nested frames...>>
    status,   \* "walk" | "done" | "panic" | "lookup" | "icon"
    events,   \* history: what each attribute rewrite did (requests, failures)
    orig,     \* history: the top-level tree as parsed, before the walk
    pass,     \* 1 during the first walk, 2 during a re-walk of its output
    first,    \* history: the top-level tree as the first walk left it
    visited,  \* history: the top-level nodes walked in this pass, in order
    lookup,   \* the last direct call of get_parent_node_name: [node, result, expected]
    relIn,    \* the input of the last is_icon call
    relOut    \* its result

vars == <<cfg, stack, status, events, orig, pass, first, visited, lookup, relIn, relOut>>

(***************************************************************************)
(* Bounds of the model.                                                    *)
(***************************************************************************)
\* siblings that follow the first child of the container element
MaxTail == 2
\* nested frame documents that may be open at once
MaxDepth == 2
\* length of the enumerated rel strings
MaxRelLen == 5

(***************************************************************************)
(* Strings.                                                                *)
(***************************************************************************)
EMPTY_STRING == <<>>

Digits == {"0", "1", "2", "3", "4", "5", "6", "7", "8", "9"}

LowerLetters ==
    {"a", "b", "c", "d", "e", "f", "g", "h", "i", "j", "k", "l", "m",
     "n", "o", "p", "q", "r", "s", "t", "u", "v", "w", "x", "y", "z"}

UpperToLower ==
    ("A" :> "a") @@ ("B" :> "b") @@ ("C" :> "c") @@ ("D" :> "d") @@
    ("E" :> "e") @@ ("F" :> "f") @@ ("G" :> "g") @@ ("H" :> "h") @@
    ("I" :> "i") @@ ("J" :> "j") @@ ("K" :> "k") @@ ("L" :> "l") @@
    ("M" :> "m") @@ ("N" :> "n") @@ ("O" :> "o") @@ ("P" :> "p") @@
    ("Q" :> "q") @@ ("R" :> "r") @@ ("S" :> "s") @@ ("T" :> "t") @@
    ("U" :> "u") @@ ("V" :> "v") @@ ("W" :> "w") @@ ("X" :> "x") @@
    ("Y" :> "y") @@ ("Z" :> "z")

\* str::to_lowercase
to_lowercase(s) ==
    [i \in DOMAIN s |-> IF s[i] \in DOMAIN UpperToLower THEN UpperToLower[s[i]] ELSE s[i]]

\* str::starts_with
starts_with(s, p) ==
    /\ Len(s) >= Len(p)
    /\ \A i \in 1..Len(p) : s[i] = p[i]

ends_with(s, p) ==
    /\ Len(s) >= Len(p)
    /\ \A i \in 1..Len(p) : s[Len(s) - Len(p) + i] = p[i]

contains(s, p) ==
    \E k \in 0..Len(s) :
        /\ k + Len(p) <= Len(s)
        /\ \A i \in 1..Len(p) : s[k + i] = p[i]

(***************************************************************************)
(* The classifiers.                                                        *)
(***************************************************************************)
S_icon == <<"i", "c", "o", "n">>
S_shortcut_icon == <<"s", "h", "o", "r", "t", "c", "u", "t", " ", "i", "c", "o", "n">>
S_mask_icon == <<"m", "a", "s", "k", "-", "i", "c", "o", "n">>
S_apple_touch_icon ==
    <<"a", "p", "p", "l", "e", "-", "t", "o", "u", "c", "h", "-", "i", "c", "o", "n">>
S_fluid_icon == <<"f", "l", "u", "i", "d", "-", "i", "c", "o", "n">>
S_stylesheet == <<"s", "t", "y", "l", "e", "s", "h", "e", "e", "t">>

\* Regex::is_match of ^icon|shortcut icon|mask-icon|apple-touch-icon|fluid-icon$ :
\* alternation binds weakest, so ^ anchors the first alternative only and $
\* the last one only; the middle alternatives match anywhere in the text.
ICON_VALUES_is_match(s) ==
    \/ starts_with(s, S_icon)
    \/ contains(s, S_shortcut_icon)
    \/ contains(s, S_mask_icon)
    \/ contains(s, S_apple_touch_icon)
    \/ ends_with(s, S_fluid_icon)

is_icon(attr_value) == ICON_VALUES_is_match(to_lowercase(attr_value))

\* Regex::is_match of ^[a-z0-9]+: : one or more of a-z0-9 from the start,
\* then a colon.
HAS_PROTOCOL_is_match(s) ==
    \E k \in 1..Len(s) :
        /\ k >= 2
        /\ s[k] = ":"
        /\ \A i \in 1..(k - 1) : s[i] \in LowerLetters \cup Digits

has_protocol(url) == HAS_PROTOCOL_is_match(to_lowercase(url))

(***************************************************************************)
(* The collaborators of the walker (modules http and utils, html5ever).    *)
(* Their code is not part of html.rs: they are modelled from their         *)
(* contracts in the specification (section 6).                             *)
(***************************************************************************)
Ok(v) == [ok |-> TRUE, val |-> v]
Err == [ok |-> FALSE, val |-> <<>>]

\* Result::unwrap_or
unwrap_or(r, d) == IF r.ok THEN r.val ELSE d

S_http == <<"h", "t", "t", "p", ":", "/", "/">>
S_https == <<"h", "t", "t", "p", "s", ":", "/", "/">>
S_data == <<"d", "a", "t", "a", ":">>
S_base64 == <<";", "b", "a", "s", "e", "6", "4", ",">>

\* isValidUrl(candidate): the candidate is an absolute http(s) URL
is_valid_url(path) == starts_with(path, S_http) \/ starts_with(path, S_https)

is_data_url(url) == starts_with(to_lowercase(url), S_data)

\* a reference no base can absorb (an unterminated IPv6 host, "//[")
Malformed(to) == contains(to, <<"[">>)

\* the position of the last "/" of s, 0 when there is none
LastSlash(s) ==
    IF \E i \in DOMAIN s : s[i] = "/"
    THEN CHOOSE i \in DOMAIN s : s[i] = "/" /\ \A j \in DOMAIN s : s[j] = "/" => j <= i
    ELSE 0

\* Url::join on an http(s) base: the reference takes the place of the last
\* segment of the base's path (http://h/a + a = http://h/a); a base without a
\* path gets it as its path (http://h + a = http://h/a); the empty reference
\* resolves to the base.
Join(from, to) ==
    LET k == IF starts_with(from, S_https) THEN Len(S_https) ELSE Len(S_http)
        l == LastSlash(SubSeq(from, k + 1, Len(from)))
    IN IF to = <<>> THEN from
       ELSE IF l = 0 THEN from \o <<"/">> \o to
       ELSE SubSeq(from, 1, k + l) \o to

\* resolve(baseUrl, ref) -> absoluteUrl | Error: an absolute reference is its
\* own resolution; a relative one needs a hierarchical base and a well-formed
\* reference.
resolve_url(from, to) ==
    IF is_valid_url(to) THEN Ok(to)
    ELSE IF ~has_protocol(from) THEN Err
    ELSE IF has_protocol(to) THEN Ok(to)
    ELSE IF ~is_valid_url(from) \/ Malformed(to) THEN Err
    ELSE Ok(Join(from, to))

\* base64: an injective re-encoding of every byte block
base64(data) == [i \in DOMAIN data |-> "=" \o data[i]]

\* toDataUrl(mimeType, bytes) -> dataUriString
data_to_dataurl(mime, data) == S_data \o mime \o S_base64 \o base64(data)

\* the bytes the network holds at an address
AssetBytes(url) == <<"bytes@">> \o url

\* the frame documents the network may answer with, as markup text
PageIds == {1, 2}
PageText(p) == <<"markup", ToString(p)>>

\* what a single retrieval meets on the network: a failure, or an answer
Net == {[ok |-> FALSE, page |-> 0]} \cup {[ok |-> TRUE, page |-> p] : p \in PageIds}

\* retrieve(url, isIconMode/asDataUrl, contentTypeHint, ...) -> string | Error.
\* The empty string is no address; a data URI is already inlined and is
\* answered as it stands; otherwise the network decides.
retrieve_asset(url, as_dataurl, as_mime, net) ==
    IF url = <<>> THEN Err
    ELSE IF is_data_url(url) THEN Ok(url)
    ELSE IF ~net.ok THEN Err
    ELSE IF as_dataurl
         THEN Ok(data_to_dataurl(IF as_mime = <<>> THEN <<"content/type">> ELSE as_mime,
                                 AssetBytes(url)))
         ELSE Ok(PageText(net.page))

(***************************************************************************)
(* The document tree (html5ever rcdom): an arena of nodes.  children are   *)
(* the owning edges, parent is the Cell<Option<Weak>> back-reference       *)
(* (None when empty).                                                      *)
(***************************************************************************)
None == 0

Node(kind, name, attrs, children, parent, text) ==
    [kind |-> kind, name |-> name, attrs |-> attrs, children |-> children,
     parent |-> parent, text |-> text]

Elem(name, attrs, children, parent) == Node("Element", name, attrs, children, parent, <<>>)

Attr(name, value) == [name |-> name, value |-> value]

N_src == <<"s", "r", "c">>
N_srcset == <<"s", "r", "c", "s", "e", "t">>
N_href == <<"h", "r", "e", "f">>
N_rel == <<"r", "e", "l">>
N_action == <<"a", "c", "t", "i", "o", "n">>
N_title == <<"t", "i", "t", "l", "e">>
N_onclick == <<"o", "n", "c", "l", "i", "c", "k">>
N_onload == <<"o", "n", "l", "o", "a", "d">>

\* Document -> html -> (head, body): what the parser builds around any input
Skeleton(bodyKids) ==
    (1 :> Node("Document", "", <<>>, <<2>>, None, <<>>)) @@
    (2 :> Elem("html", <<>>, <<3, 4>>, 1)) @@
    (3 :> Elem("head", <<>>, <<>>, 2)) @@
    (4 :> Elem("body", <<>>, bodyKids, 2))

V_REL == <<"a">>
V_BAD == <<"/", "/", "[">>
V_ABS == <<"h", "t", "t", "p", ":", "/", "/", "h", "/", "a">>
V_FRAG == <<"#", "x">>
V_TEL == <<"T", "e", "l", ":", "1">>
V_JS == <<"f", "(", ")">>
V_DATA == data_to_dataurl(<<"content/type">>, AssetBytes(V_ABS))

\* the frame documents behind PageText
Page(p) ==
    IF p = 1
    THEN Skeleton(<<5, 6, 7>>) @@
         (5 :> Node("Comment", "", <<>>, <<>>, 4, <<"c">>)) @@
         (6 :> Elem("img", <<Attr(N_src, V_REL)>>, <<>>, 4)) @@
         (7 :> Elem("a", <<Attr(N_href, V_REL)>>, <<>>, 4))
    ELSE Skeleton(<<5>>) @@
         (5 :> Elem("iframe", <<Attr(N_src, V_REL)>>, <<>>, 4))

\* parse(markup) -> Tree: never fails.  Empty input gives the bare skeleton,
\* the markup of a frame document gives its tree, any other text becomes a
\* text node of the body.
html_to_dom(data) ==
    IF data = <<>> THEN Skeleton(<<>>)
    ELSE IF \E p \in PageIds : data = PageText(p)
         THEN Page(CHOOSE p \in PageIds : data = PageText(p))
    ELSE Skeleton(<<5>>) @@ (5 :> Node("Text", "", <<>>, <<>>, 4, data))

VoidTags == {"img", "link", "source"}

RECURSIVE serialize_node(_, _), serialize_all(_, _)
serialize_attrs(attrs) ==
    LET one(a) == <<" ">> \o a.name \o <<"=", "\"">> \o a.value \o <<"\"">>
        F[i \in 0..Len(attrs)] == IF i = 0 THEN <<>> ELSE F[i - 1] \o one(attrs[i])
    IN F[Len(attrs)]

serialize_all(dom, ids) ==
    IF ids = <<>> THEN <<>>
    ELSE serialize_node(dom, Head(ids)) \o serialize_all(dom, Tail(ids))

\* serialize(node) -> text, with the default options
serialize_node(dom, n) ==
    LET node == dom[n] IN
    CASE node.kind = "Document" -> serialize_all(dom, node.children)
      [] node.kind = "Doctype" -> <<"<!DOCTYPE html>">>
      [] node.kind = "Text" -> node.text
      [] node.kind = "Comment" -> <<"<!--">> \o node.text \o <<"-->">>
      [] OTHER ->
            <<"<", node.name>> \o serialize_attrs(node.attrs) \o <<">">>
            \o serialize_all(dom, node.children)
            \o (IF node.name \in VoidTags THEN <<>> ELSE <<"</", node.name, ">">>)

serialize(dom) == serialize_node(dom, 1)

(***************************************************************************)
(* get_parent_node_name: node.parent.take() moves the back-reference out   *)
(* of the cell (leaving None), upgrade().unwrap() panics when there is     *)
(* none; the name of an Element parent is returned, "" for the other kinds.*)
(***************************************************************************)
PANIC == "<panic>"

get_parent_node_name(dom, n) ==
    IF dom[n].parent = None \/ dom[n].parent \notin DOMAIN dom THEN PANIC
    ELSE IF dom[dom[n].parent].kind = "Element" THEN dom[dom[n].parent].name
    ELSE ""

\* the tree after the call: Cell::take leaves None behind
parent_taken(dom, n) == [dom EXCEPT ![n].parent = None]

(***************************************************************************)
(* The policy of walk_and_embed_assets, attribute by attribute.  An        *)
(* outcome is the value the attribute holds after its branch, whether the  *)
(* branch wrote it, the addresses it requested, and what failed.           *)
(***************************************************************************)
TRANSPARENT_PIXEL ==
    S_data \o <<"image/png">> \o S_base64 \o
    <<"iVBORw0KGgoAAAANSUhEUgAAAAEAAAABCAQAAAC1HAwCAAAAC0lEQVR42mNkYAAAAAYAAjCB0C8AAAAASUVORK5CYII=">>

JS_DOM_EVENT_ATTRS ==
    {<<"o", "n", "f", "o", "c", "u", "s">>,
     <<"o", "n", "b", "l", "u", "r">>,
     <<"o", "n", "s", "e", "l", "e", "c", "t">>,
     <<"o", "n", "c", "h", "a", "n", "g", "e">>,
     <<"o", "n", "s", "u", "b", "m", "i", "t">>,
     <<"o", "n", "r", "e", "s", "e", "t">>,
     <<"o", "n", "k", "e", "y", "d", "o", "w", "n">>,
     <<"o", "n", "k", "e", "y", "p", "r", "e", "s", "s">>,
     <<"o", "n", "k", "e", "y", "u", "p">>,
     <<"o", "n", "m", "o", "u", "s", "e", "o", "v", "e", "r">>,
     <<"o", "n", "m", "o", "u", "s", "e", "o", "u", "t">>,
     <<"o", "n", "m", "o", "u", "s", "e", "d", "o", "w", "n">>,
     <<"o", "n", "m", "o", "u", "s", "e", "u", "p">>,
     <<"o", "n", "m", "o", "u", "s", "e", "m", "o", "v", "e">>,
     <<"o", "n", "c", "l", "i", "c", "k">>,
     <<"o", "n", "d", "b", "l", "c", "l", "i", "c", "k">>,
     <<"o", "n", "l", "o", "a", "d">>,
     <<"o", "n", "u", "n", "l", "o", "a", "d">>,
     <<"o", "n", "a", "b", "o", "r", "t">>,
     <<"o", "n", "e", "r", "r", "o", "r">>,
     <<"o", "n", "r", "e", "s", "i", "z", "e">>}

Outcome(value, touched, reqs, resFail, retFail) ==
    [value |-> value, touched |-> touched, reqs |-> reqs,
     resFail |-> resFail, retFail |-> retFail]

\* the attribute is not written
Keep(value) == Outcome(value, FALSE, <<>>, FALSE, FALSE)

\* attr.value.clear(); attr.value.push_slice(v)
Put(v) == Outcome(v, TRUE, <<>>, FALSE, FALSE)

\* resolve_url(..).unwrap_or(EMPTY_STRING), written back
Resolved(url, value) ==
    LET r == resolve_url(url, value)
    IN Outcome(unwrap_or(r, EMPTY_STRING), TRUE, <<>>, ~r.ok, FALSE)

\* faulty variant: a failed retrieval leaves the reference as it was
Fetched_keeps_on_failure(url, value, mime, net) ==
    LET r == resolve_url(url, value)
        full == unwrap_or(r, EMPTY_STRING)
        a == retrieve_asset(full, TRUE, mime, net)
    IN Outcome(unwrap_or(a, value), TRUE, <<full>>, ~r.ok, ~a.ok)

\* resolve_url(..).unwrap_or(EMPTY_STRING), then
\* retrieve_asset(.., true, mime, ..).unwrap_or(EMPTY_STRING), written back
Fetched(url, value, mime, net) ==
    LET r == resolve_url(url, value)
        full == unwrap_or(r, EMPTY_STRING)
        a == retrieve_asset(full, TRUE, mime, net)
    IN Outcome(unwrap_or(a, EMPTY_STRING), TRUE, <<full>>, ~r.ok, ~a.ok)

\* the first rel attribute that is an icon or "stylesheet" decides
link_type(attrs) ==
    LET F[i \in 1..(Len(attrs) + 1)] ==
            IF i > Len(attrs) THEN ""
            ELSE IF attrs[i].name = N_rel /\ is_icon(attrs[i].value) THEN "icon"
            ELSE IF attrs[i].name = N_rel /\ attrs[i].value = S_stylesheet THEN "stylesheet"
            ELSE F[i + 1]
    IN F[1]

link_branch(url, attr, ltype, opt_no_images, net) ==
    IF attr.name # N_href THEN Keep(attr.value)
    ELSE IF ltype = "icon"
         THEN IF opt_no_images THEN Put(TRANSPARENT_PIXEL)
              ELSE Fetched(url, attr.value, <<>>, net)
    ELSE IF ltype = "stylesheet" THEN Fetched(url, attr.value, <<"text/css">>, net)
    ELSE Resolved(url, attr.value)

\* faulty variant: opt_no_images is not consulted for images
img_branch_ignores_option(url, attr, opt_no_images, net) ==
    IF attr.name # N_src THEN Keep(attr.value)
    ELSE IF attr.value = EMPTY_STRING THEN Keep(attr.value)
    ELSE Fetched(url, attr.value, <<>>, net)

img_branch(url, attr, opt_no_images, net) ==
    IF attr.name # N_src THEN Keep(attr.value)
    ELSE IF attr.value = EMPTY_STRING THEN Keep(attr.value)
    ELSE IF opt_no_images THEN Put(TRANSPARENT_PIXEL)
    ELSE Fetched(url, attr.value, <<>>, net)

source_branch(url, attr, parent_name, opt_no_images, net) ==
    IF attr.name # N_srcset THEN Keep(attr.value)
    ELSE IF parent_name # "picture" THEN Keep(attr.value)
    ELSE IF opt_no_images THEN Put(TRANSPARENT_PIXEL)
    ELSE Fetched(url, attr.value, <<>>, net)

\* faulty variant: the target of an anchor is inlined like an asset
a_branch_inlines(url, attr) ==
    IF attr.name # N_href THEN Keep(attr.value)
    ELSE IF starts_with(attr.value, <<"#">>) \/ has_protocol(attr.value) THEN Keep(attr.value)
    ELSE Fetched(url, attr.value, <<>>, [ok |-> TRUE, page |-> 1])

a_branch(url, attr) ==
    IF attr.name # N_href THEN Keep(attr.value)
    ELSE IF starts_with(attr.value, <<"#">>) \/ has_protocol(attr.value) THEN Keep(attr.value)
    ELSE Resolved(url, attr.value)

\* faulty variant: the script branch loads the script whatever opt_no_js says
script_branch_always_loads(url, attr, opt_no_js, net) ==
    IF attr.name # N_src THEN Keep(attr.value)
    ELSE Fetched(url, attr.value, <<"application/javascript">>, net)

script_branch(url, attr, opt_no_js, net) ==
    IF attr.name # N_src THEN Keep(attr.value)
    ELSE IF opt_no_js THEN Put(EMPTY_STRING)
    ELSE Fetched(url, attr.value, <<"application/javascript">>, net)

form_branch(url, attr) ==
    IF attr.name # N_action THEN Keep(attr.value)
    ELSE IF is_valid_url(attr.value) THEN Keep(attr.value)
    ELSE Resolved(url, attr.value)

\* faulty variant: an unknown tag falls into the img branch
tag_branch_default_img(name, url, attr, ltype, parent_name, opts, net) ==
    CASE name = "link" -> link_branch(url, attr, ltype, opts.no_images, net)
      [] name = "source" -> source_branch(url, attr, parent_name, opts.no_images, net)
      [] name = "a" -> a_branch(url, attr)
      [] name = "script" -> script_branch(url, attr, opts.no_js, net)
      [] name = "form" -> form_branch(url, attr)
      [] OTHER -> img_branch(url, attr, opts.no_images, net)

\* match name.local.as_ref() { ... } for one attribute; an iframe src that is
\* not empty is handled by the nested walk (EnterFrame, LeaveFrame)
tag_branch(name, url, attr, ltype, parent_name, opts, net) ==
    CASE name = "link" -> link_branch(url, attr, ltype, opts.no_images, net)
      [] name = "img" -> img_branch(url, attr, opts.no_images, net)
      [] name = "source" -> source_branch(url, attr, parent_name, opts.no_images, net)
      [] name = "a" -> a_branch(url, attr)
      [] name = "script" -> script_branch(url, attr, opts.no_js, net)
      [] name = "form" -> form_branch(url, attr)
      [] OTHER -> Keep(attr.value)

\* if opt_no_js: every attribute whose lower-cased name is an event handler
\* has its value cleared
clear_js_attrs(attrs, opt_no_js) ==
    [i \in DOMAIN attrs |->
        IF opt_no_js /\ to_lowercase(attrs[i].name) \in JS_DOM_EVENT_ATTRS
        THEN [attrs[i] EXCEPT !.value = EMPTY_STRING]
        ELSE attrs[i]]

\* the nodes of the subtrees below n
RECURSIVE Below(_, _)
Below(dom, n) ==
    LET kids == {dom[n].children[i] : i \in DOMAIN dom[n].children}
    IN kids \cup UNION {Below(dom, k) : k \in kids}

\* node.children.borrow_mut().clear(): the subtrees are dropped
clear_children(dom, n) ==
    LET gone == Below(dom, n)
    IN [m \in (DOMAIN dom) \ gone |->
            IF m = n THEN [dom[m] EXCEPT !.children = <<>>] ELSE dom[m]]

(***************************************************************************)
(* The documents walked: what the parser yields for                        *)
(* <container> kid1 tail... </container>, under html/body.  Attribute      *)
(* names are unique within an element and lower-case, as the parser        *)
(* leaves them.                                                            *)
(***************************************************************************)
BASE == <<"h", "t", "t", "p", ":", "/", "/", "h">>

T(name, attrs, text) == [name |-> name, attrs |-> attrs, text |-> text]

S_icon_sp == <<"I", "c", "o", "n", " ">>
S_next == <<"n", "e", "x", "t">>

Templates ==
    {T("img", <<Attr(N_src, v)>>, <<>>) : v \in {EMPTY_STRING, V_REL, V_BAD, V_ABS, V_DATA}}
    \cup {T("img", <<Attr(N_onload, V_JS), Attr(N_src, V_REL)>>, <<>>)}
    \cup {T("source", <<Attr(N_srcset, v)>>, <<>>) : v \in {EMPTY_STRING, V_REL, V_ABS}}
    \cup {T("link", <<Attr(N_rel, r), Attr(N_href, v)>>, <<>>) :
            r \in {S_icon, S_stylesheet, S_next}, v \in {V_REL, V_BAD}}
    \cup {T("link", <<Attr(N_rel, S_icon_sp), Attr(N_href, V_REL)>>, <<>>),
          T("link", <<Attr(N_href, V_REL), Attr(N_rel, S_shortcut_icon)>>, <<>>),
          T("link", <<Attr(N_href, V_REL)>>, <<>>),
          T("link", <<Attr(N_rel, S_next), Attr(N_href, V_ABS)>>, <<>>)}
    \cup {T("a", <<Attr(N_href, v)>>, <<>>) :
            v \in {EMPTY_STRING, V_REL, V_BAD, V_ABS, V_FRAG, V_TEL}}
    \cup {T("script", <<Attr(N_src, v)>>, <<>>) : v \in {V_REL, V_ABS}}
    \cup {T("script", <<>>, V_JS)}
    \cup {T("form", <<Attr(N_action, v)>>, <<>>) : v \in {V_REL, V_BAD, V_ABS}}
    \cup {T("iframe", <<Attr(N_src, v)>>, <<>>) :
            v \in {EMPTY_STRING, V_REL, V_BAD, V_ABS, V_DATA}}
    \cup {T("div", <<Attr(N_onclick, V_JS), Attr(N_title, V_REL)>>, <<>>),
          T("p", <<Attr(N_src, V_REL), Attr(N_href, V_REL)>>, V_JS)}

TailTemplates ==
    {T("a", <<Attr(N_href, V_REL)>>, <<>>),
     T("img", <<Attr(N_src, V_REL)>>, <<>>),
     T("script", <<Attr(N_onclick, V_JS)>>, V_JS)}

Tails == UNION {[1..k -> TailTemplates] : k \in 0..MaxTail}

\* kid i is node 4 + 2i, its text child (if any) node 5 + 2i
TopDoc(container, kids) ==
    LET ids == {4 + 2 * i : i \in 1..Len(kids)}
                \cup {5 + 2 * i : i \in {j \in 1..Len(kids) : kids[j].text # <<>>}}
        kid(m) == kids[(m - 4) \div 2]
    IN Skeleton(<<5>>) @@
       (5 :> Elem(container, <<>>, [i \in 1..Len(kids) |-> 4 + 2 * i], 4)) @@
       [m \in ids |->
            IF m % 2 = 0
            THEN Elem(kid(m).name, kid(m).attrs,
                      IF kid(m).text # <<>> THEN <<m + 1>> ELSE <<>>, 5)
            ELSE Node("Text", "", <<>>, <<>>, m - 1, kids[(m - 5) \div 2].text)]

Frame(url, dom, resFail, retFail, req) ==
    [url |-> url, dom |-> dom, todo |-> <<1>>,
     resFail |-> resFail, retFail |-> retFail, req |-> req]

NoLookup == [node |-> 0, result |-> "", expected |-> ""]

Init ==
    /\ cfg \in [no_js : BOOLEAN, no_images : BOOLEAN]
    /\ \E container \in {"div", "picture"}, kid \in Templates, tail \in Tails :
          LET dom == TopDoc(container, <<kid>> \o tail)
          IN /\ stack = <<Frame(BASE, dom, FALSE, FALSE, <<>>)>>
             /\ orig = dom
             /\ first = dom
    /\ status = "walk"
    /\ events = {}
    /\ pass = 1
    /\ visited = <<>>
    /\ lookup = NoLookup
    /\ relIn = <<>>
    /\ relOut = FALSE

(***************************************************************************)
(* walk_and_embed_assets, one call per step.  The node a call is on is the *)
(* head of the frame's todo list; its children are walked before the       *)
(* siblings that follow it (depth first, document order).                  *)
(***************************************************************************)
Top == stack[Len(stack)]
Cur == Top.dom[Head(Top.todo)]
Walking == status = "walk" /\ Top.todo # <<>>

SetTop(f) == [stack EXCEPT ![Len(stack)] = f]

\* the call on the head of the top-level frame's todo list is recorded
Visit == visited' = IF Len(stack) = 1 THEN Append(visited, Head(Top.todo)) ELSE visited

Event(depth, n, tag, attr, out, nested) ==
    [pass |-> pass, depth |-> depth, node |-> n, tag |-> tag, attr |-> attr.name,
     old |-> attr.value, value |-> out.value, touched |-> out.touched,
     reqs |-> out.reqs, resFail |-> out.resFail, retFail |-> out.retFail,
     nested |-> nested]

\* an iframe src that is not empty: the branch that walks a nested document
FrameSrc(node) ==
    /\ node.kind = "Element"
    /\ node.name = "iframe"
    /\ \E i \in DOMAIN node.attrs :
          node.attrs[i].name = N_src /\ node.attrs[i].value # EMPTY_STRING

\* NodeData::Document: dig deeper
WalkDocument ==
    /\ Walking
    /\ Cur.kind = "Document"
    /\ stack' = SetTop([Top EXCEPT !.todo = Cur.children \o Tail(Top.todo)])
    /\ Visit
    /\ UNCHANGED <<cfg, status, events, orig, pass, first, lookup, relIn, relOut>>

\* NodeData::Doctype, Text, Comment: nothing
WalkLeaf ==
    /\ Walking
    /\ Cur.kind \in {"Doctype", "Text", "Comment"}
    /\ stack' = SetTop([Top EXCEPT !.todo = Tail(Top.todo)])
    /\ Visit
    /\ UNCHANGED <<cfg, status, events, orig, pass, first, lookup, relIn, relOut>>

\* the tree and the outcomes of the Element branch on node n, up to (not
\* including) the recursion into the children
element_step(url, dom, n, opts, net) ==
    LET node == dom[n]
        calls == node.name = "source" /\ \E i \in DOMAIN node.attrs : node.attrs[i].name = N_srcset
        pname == IF calls THEN get_parent_node_name(dom, n) ELSE ""
        outs == [i \in DOMAIN node.attrs |->
                    tag_branch(node.name, url, node.attrs[i], link_type(node.attrs),
                               pname, opts, net)]
        attrs1 == [i \in DOMAIN node.attrs |-> [node.attrs[i] EXCEPT !.value = outs[i].value]]
        dom1 == IF calls THEN parent_taken(dom, n) ELSE dom
        dom2 == IF node.name = "script" /\ opts.no_js THEN clear_children(dom1, n) ELSE dom1
    IN [panic |-> pname = PANIC,
        outs |-> outs,
        dom |-> [dom2 EXCEPT ![n].attrs = clear_js_attrs(attrs1, opts.no_js)]]

\* NodeData::Element, every tag but an iframe with a src to load
WalkElement(net) ==
    /\ Walking
    /\ Cur.kind = "Element"
    /\ ~FrameSrc(Cur)
    /\ LET n == Head(Top.todo)
           r == element_step(Top.url, Top.dom, n, cfg, net)
       IN IF r.panic
          THEN /\ status' = "panic"
               /\ UNCHANGED <<stack, events, visited>>
          ELSE /\ status' = status
               /\ Visit
               /\ stack' = SetTop([Top EXCEPT !.dom = r.dom,
                                              !.todo = r.dom[n].children \o Tail(Top.todo)])
               /\ events' = events \cup
                    {Event(Len(stack), n, Cur.name, Cur.attrs[i], r.outs[i], FALSE) :
                        i \in DOMAIN Cur.attrs}
    /\ UNCHANGED <<cfg, orig, pass, first, lookup, relIn, relOut>>

\* the iframe branch up to the nested call: resolve, retrieve as text, parse
frame_open(url, value, net) ==
    LET r == resolve_url(url, value)
        src_full_url == unwrap_or(r, EMPTY_STRING)
        a == retrieve_asset(src_full_url, FALSE, <<"text/html">>, net)
        iframe_data == unwrap_or(a, EMPTY_STRING)
    IN Frame(src_full_url, html_to_dom(iframe_data), ~r.ok, ~a.ok, src_full_url)

EnterFrame(net) ==
    /\ Walking
    /\ FrameSrc(Cur)
    /\ Len(stack) <= MaxDepth
    /\ LET i == CHOOSE j \in DOMAIN Cur.attrs :
                    Cur.attrs[j].name = N_src /\ Cur.attrs[j].value # EMPTY_STRING
       IN stack' = Append(stack, frame_open(Top.url, Cur.attrs[i].value, net))
    /\ Visit
    /\ UNCHANGED <<cfg, status, events, orig, pass, first, lookup, relIn, relOut>>

\* faulty variant: the serialized sub-document is left out of the data URI
frame_close_unserialized(attrs, sub, opt_no_js) ==
    clear_js_attrs(
        [i \in DOMAIN attrs |->
            IF attrs[i].name = N_src /\ attrs[i].value # EMPTY_STRING
            THEN [attrs[i] EXCEPT !.value = data_to_dataurl(<<"text/html">>, <<>>)]
            ELSE attrs[i]],
        opt_no_js)

\* the iframe branch after the nested call: serialize, encode, write src;
\* then the event-handler attributes
frame_close(attrs, sub, opt_no_js) ==
    LET iframe_datauri == data_to_dataurl(<<"text/html">>, serialize(sub))
    IN clear_js_attrs(
          [i \in DOMAIN attrs |->
              IF attrs[i].name = N_src /\ attrs[i].value # EMPTY_STRING
              THEN [attrs[i] EXCEPT !.value = iframe_datauri]
              ELSE attrs[i]],
          opt_no_js)

LeaveFrame ==
    /\ status = "walk"
    /\ Len(stack) > 1
    /\ Top.todo = <<>>
    /\ LET outer == stack[Len(stack) - 1]
           n == Head(outer.todo)
           node == outer.dom[n]
           attrs2 == frame_close(node.attrs, Top.dom, cfg.no_js)
       IN /\ stack' = SubSeq(stack, 1, Len(stack) - 2) \o
                        <<[outer EXCEPT !.dom[n].attrs = attrs2,
                                        !.todo = node.children \o Tail(outer.todo)]>>
          /\ events' = events \cup
                {Event(Len(stack) - 1, n, node.name, node.attrs[i],
                       Outcome(attrs2[i].value,
                               node.attrs[i].name = N_src /\ node.attrs[i].value # EMPTY_STRING,
                               IF node.attrs[i].name = N_src /\ node.attrs[i].value # EMPTY_STRING
                               THEN <<Top.req>> ELSE <<>>,
                               Top.resFail, Top.retFail),
                       node.attrs[i].name = N_src /\ node.attrs[i].value # EMPTY_STRING) :
                    i \in DOMAIN node.attrs}
    /\ UNCHANGED <<cfg, status, orig, pass, first, visited, lookup, relIn, relOut>>

\* the top-level call returns
Finish ==
    /\ status = "walk"
    /\ Len(stack) = 1
    /\ Top.todo = <<>>
    /\ status' = "done"
    /\ first' = IF pass = 1 THEN Top.dom ELSE first
    /\ UNCHANGED <<cfg, stack, events, orig, pass, visited, lookup, relIn, relOut>>

Next ==
    \/ WalkDocument
    \/ WalkLeaf
    \/ \E net \in Net : WalkElement(net)
    \/ \E net \in Net : EnterFrame(net)
    \/ LeaveFrame
    \/ Finish

Spec == Init /\ [][Next]_vars

(***************************************************************************)
(* The nested call has no depth guard (html.rs:328): every iframe with a   *)
(* src opens another invocation on the native call stack.  The stack is    *)
(* finite; MaxDepth stands for the number of nested documents it holds.    *)
(* The call that does not fit aborts the process: no tree is returned and  *)
(* nothing is written.                                                     *)
(***************************************************************************)
Overflow ==
    /\ Walking
    /\ FrameSrc(Cur)
    /\ Len(stack) > MaxDepth
    /\ status' = "overflow"
    /\ UNCHANGED <<cfg, stack, events, orig, pass, first, visited, lookup, relIn, relOut>>

NextDeep == Next \/ Overflow

SpecDeep == Init /\ [][NextDeep]_vars

(***************************************************************************)
(* A second run of the program on its own output: the output is parsed     *)
(* again (the tree builder sets every back-reference afresh) and walked    *)
(* with the same options and base URL.                                     *)
(***************************************************************************)
Container(dom, n) ==
    IF \E m \in DOMAIN dom : \E i \in DOMAIN dom[m].children : dom[m].children[i] = n
    THEN CHOOSE m \in DOMAIN dom : \E i \in DOMAIN dom[m].children : dom[m].children[i] = n
    ELSE None

\* html_to_dom(serialize(dom))
reparse(dom) == [n \in DOMAIN dom |-> [dom[n] EXCEPT !.parent = Container(dom, n)]]

ReWalk ==
    /\ status = "done"
    /\ pass = 1
    /\ pass' = 2
    /\ status' = "walk"
    /\ stack' = <<Frame(Top.url, reparse(Top.dom), FALSE, FALSE, <<>>)>>
    /\ visited' = <<>>
    /\ UNCHANGED <<cfg, events, orig, first, lookup, relIn, relOut>>

NextTwice == Next \/ ReWalk

SpecTwice == Init /\ [][NextTwice]_vars

(***************************************************************************)
(* Direct calls of get_parent_node_name on the element nodes of a parsed   *)
(* tree, as test_get_parent_node_name makes them.                          *)
(***************************************************************************)
InitLookup ==
    /\ cfg \in [no_js : {FALSE}, no_images : {FALSE}]
    /\ \E container \in {"div", "picture"}, kid \in Templates, tail \in Tails :
          LET dom == TopDoc(container, <<kid>> \o tail)
          IN /\ stack = <<Frame(BASE, dom, FALSE, FALSE, <<>>)>>
             /\ orig = dom
             /\ first = dom
    /\ status = "lookup"
    /\ events = {}
    /\ pass = 1
    /\ visited = <<>>
    /\ lookup = NoLookup
    /\ relIn = <<>>
    /\ relOut = FALSE

Lookup(n) ==
    /\ status = "lookup"
    /\ Top.dom[n].kind = "Element"
    /\ LET c == Container(orig, n)
       IN lookup' = [node |-> n,
                     result |-> get_parent_node_name(Top.dom, n),
                     expected |-> IF orig[c].kind = "Element" THEN orig[c].name ELSE ""]
    /\ status' = IF get_parent_node_name(Top.dom, n) = PANIC THEN "panic" ELSE status
    /\ stack' = SetTop([Top EXCEPT !.dom = parent_taken(Top.dom, n)])
    /\ UNCHANGED <<cfg, events, orig, pass, first, visited, relIn, relOut>>

NextLookup == \E n \in DOMAIN Top.dom : Lookup(n)

SpecLookup == InitLookup /\ [][NextLookup]_vars

(***************************************************************************)
(* Calls of is_icon on rel values.                                         *)
(***************************************************************************)
RelAlphabet == {"i", "c", "o", "n", " ", "I"}

RelInputs ==
    UNION {[1..k -> RelAlphabet] : k \in 0..MaxRelLen}
    \cup {S_shortcut_icon, S_mask_icon, S_apple_touch_icon, S_fluid_icon, S_stylesheet,
          <<"S">> \o Tail(S_shortcut_icon), S_mask_icon \o <<"s">>,
          <<"x">> \o S_apple_touch_icon, <<"n", "o", "-">> \o S_fluid_icon,
          S_fluid_icon \o <<" ">>}

InitIcon ==
    /\ relIn \in RelInputs
    /\ relOut = FALSE
    /\ status = "icon"
    /\ cfg = [no_js |-> FALSE, no_images |-> FALSE]
    /\ stack = <<>>
    /\ events = {}
    /\ orig = <<>>
    /\ first = <<>>
    /\ pass = 1
    /\ visited = <<>>
    /\ lookup = NoLookup

Classify ==
    /\ status = "icon"
    /\ relOut' = is_icon(relIn)
    /\ status' = "classified"
    /\ UNCHANGED <<cfg, stack, events, orig, pass, first, visited, lookup, relIn>>

NextIcon == Classify

SpecIcon == InitIcon /\ [][NextIcon]_vars

(***************************************************************************)
(* Properties.                                                             *)
(***************************************************************************)
\* the top-level tree
Final == stack[1].dom

ValueOf(dom, n, name) ==
    LET i == CHOOSE j \in DOMAIN dom[n].attrs : dom[n].attrs[j].name = name
    IN dom[n].attrs[i].value

RECURSIVE Preorder(_, _), PreorderAll(_, _)
Preorder(dom, n) == <<n>> \o PreorderAll(dom, dom[n].children)

PreorderAll(dom, ids) ==
    IF ids = <<>> THEN <<>> ELSE Preorder(dom, Head(ids)) \o PreorderAll(dom, Tail(ids))

\* every node of the top-level tree was walked, in document order
WalkedAll == visited = Preorder(Final, 1)

\* an event of the top-level tree in the current pass
IsTop(e) == e.depth = 1 /\ e.pass = pass

\* node n of the top-level tree was walked, and other nodes after it
Followed(n) == \E k \in DOMAIN visited : visited[k] = n /\ k < Len(visited)

\* the data URI of the document parsed from the empty string
EmptyFrameUri == data_to_dataurl(<<"text/html">>, serialize(html_to_dom(EMPTY_STRING)))

C1_Failed ==
    {e \in events : e.nested /\ e.tag = "iframe" /\ e.attr = N_src /\ (e.resFail \/ e.retFail)}

C2_Failed ==
    {e \in events :
        /\ ~e.nested
        /\ e.tag \in {"link", "img", "source", "script"}
        /\ e.reqs # <<>>
        /\ (e.resFail \/ e.retFail)}

\* C2: in the inlining rules other than iframe (icon and stylesheet link
\* href, img src, picture>source srcset, script src with scripts enabled), a
\* failed resolution or a failed retrieval leaves the attribute with the
\* empty string after the walk, and the walk goes on to every remaining node.
C2_EmptyOnFailure ==
    \A e \in C2_Failed :
        /\ e.value = EMPTY_STRING
        /\ (status = "done" /\ IsTop(e)) =>
              (ValueOf(Final, e.node, e.attr) = EMPTY_STRING /\ WalkedAll)

C2_Witness ==
    /\ status = "done"
    /\ \E e1, e2 \in C2_Failed :
          /\ IsTop(e1) /\ e1.resFail /\ Followed(e1.node)
          /\ IsTop(e2) /\ ~e2.resFail /\ e2.retFail /\ e2.old # EMPTY_STRING


IconNames == {S_icon, S_shortcut_icon, S_mask_icon, S_apple_touch_icon, S_fluid_icon}

\* C3: is_icon(s) is true exactly when s, lower-cased, is as a whole one of
\* icon, shortcut icon, mask-icon, apple-touch-icon, fluid-icon (no trimming,
\* no partial match): is_icon("ICON") is true, is_icon("icon ") is false.
C3_ExactMatch == status = "classified" => (relOut = (to_lowercase(relIn) \in IconNames))

\* the element nodes of a tree
Elements(dom) == {n \in DOMAIN dom : dom[n].kind = "Element"}

HasAttr(dom, n, name) == \E i \in DOMAIN dom[n].attrs : dom[n].attrs[i].name = name

AttrNames(dom, n) == [i \in DOMAIN dom[n].attrs |-> dom[n].attrs[i].name]

IsEventAttr(name) == to_lowercase(name) \in JS_DOM_EVENT_ATTRS

\* C4: after a walk with scripts disabled, every script element of the tree
\* has an empty value in each src attribute and no child nodes, every
\* event-handler attribute of any element has an empty value, and the
\* attributes themselves are kept.
C4_ScriptsStripped ==
    (status = "done" /\ cfg.no_js) =>
        \A n \in Elements(Final) :
            /\ Final[n].name = "script" =>
                  /\ Final[n].children = <<>>
                  /\ \A i \in DOMAIN Final[n].attrs :
                        Final[n].attrs[i].name = N_src => Final[n].attrs[i].value = EMPTY_STRING
            /\ \A i \in DOMAIN Final[n].attrs :
                  IsEventAttr(Final[n].attrs[i].name) => Final[n].attrs[i].value = EMPTY_STRING
            /\ AttrNames(Final, n) = AttrNames(orig, n)

C4_Witness ==
    /\ status = "done"
    /\ cfg.no_js
    /\ \E n \in Elements(orig) :
          orig[n].name = "script" /\ HasAttr(orig, n, N_src) /\ ValueOf(orig, n, N_src) # EMPTY_STRING
    /\ \E n \in Elements(orig) :
          /\ orig[n].name = "script"
          /\ orig[n].children # <<>>
          /\ HasAttr(orig, n, N_onclick)
          /\ ValueOf(orig, n, N_onclick) # EMPTY_STRING

DataPairs ==
    {<<"img", N_src>>, <<"link", N_href>>, <<"source", N_srcset>>, <<"script", N_src>>}

UrlPairs == {<<"a", N_href>>, <<"link", N_href>>, <<"form", N_action>>}

SecondDone == status = "done" /\ pass = 2

\* C5: a second walk of the output, with the same options and base
\* URL, leaves every data-URI value of an img, link, source, script or iframe
\* attribute unchanged, and every absolute a href, link href and form action.
C5_Original ==
    SecondDone =>
        \A n \in Elements(first) : \A i \in DOMAIN first[n].attrs :
            LET pair == <<first[n].name, first[n].attrs[i].name>>
                was == first[n].attrs[i].value
            IN /\ (pair \in DataPairs \cup {<<"iframe", N_src>>} /\ is_data_url(was)) =>
                     Final[n].attrs[i].value = was
               /\ (pair \in UrlPairs /\ is_valid_url(was)) => Final[n].attrs[i].value = was

\* What the second walk does keep: the data-URI values of img, link, source
\* and script attributes and the absolute a href, link href and form action;
\* an iframe src that is a data URI is loaded, walked and encoded again, and
\* becomes a different data URI.
SecondWalkKeeps ==
    SecondDone =>
        \A n \in Elements(first) : \A i \in DOMAIN first[n].attrs :
            LET pair == <<first[n].name, first[n].attrs[i].name>>
                was == first[n].attrs[i].value
            IN /\ (pair \in DataPairs /\ is_data_url(was)) => Final[n].attrs[i].value = was
               /\ (pair \in UrlPairs /\ is_valid_url(was)) => Final[n].attrs[i].value = was
               /\ (pair = <<"iframe", N_src>> /\ is_data_url(was)) =>
                     /\ Final[n].attrs[i].value # was
                     /\ is_data_url(Final[n].attrs[i].value)

\* the tag of the element that holds node n of the parsed tree ("" when the
\* holder is no element)
HolderName(n) ==
    LET c == Container(orig, n)
    IN IF c # None /\ orig[c].kind = "Element" THEN orig[c].name ELSE ""

\* the network answer behind an event (the result does not depend on the
\* page in data-URI mode)
NetOf(e) == [ok |-> ~e.retFail, page |-> IF e.retFail THEN 0 ELSE 1]

C6_Events == {e \in events : IsTop(e) /\ e.tag = "source" /\ e.attr = N_srcset}

SameAsImg(e) ==
    LET o == img_branch(BASE, Attr(N_src, e.old), cfg.no_images, NetOf(e))
    IN o.value = e.value /\ o.reqs = e.reqs

\* C6: the srcset of a source directly inside picture is treated as
\* the img rule treats src, for every value including the empty one (same
\* final value, same retrievals); outside picture it is unchanged and nothing
\* is retrieved.
C6_Original ==
    \A e \in C6_Events :
        IF HolderName(e.node) = "picture"
        THEN SameAsImg(e)
        ELSE e.value = e.old /\ e.reqs = <<>>

\* What the source rule does: as the img rule for every value that is not
\* empty; an empty srcset is not skipped as an empty img src is: with images
\* disabled it becomes the transparent pixel, otherwise the empty reference
\* is resolved (to the base URL) and a retrieval is issued.
SourceRule ==
    \A e \in C6_Events :
        IF HolderName(e.node) # "picture" THEN e.value = e.old /\ e.reqs = <<>>
        ELSE IF e.old # EMPTY_STRING THEN SameAsImg(e)
        ELSE /\ e.touched
             /\ IF cfg.no_images
                THEN e.value = TRANSPARENT_PIXEL /\ e.reqs = <<>>
                ELSE e.reqs = <<unwrap_or(resolve_url(BASE, EMPTY_STRING), EMPTY_STRING)>>

\* C7: get_parent_node_name, called on any element node of a parsed tree,
\* returns the tag of the element that holds it, or "" when the holder is a
\* Document, Doctype, Text or Comment node, on every call, a repeated call on
\* the same node included.
C7_ParentName == lookup.node # 0 => lookup.result = lookup.expected

CoveredTags == {"link", "img", "source", "a", "script", "form", "iframe"}

Covered(tag, name) ==
    \/ <<tag, name>> \in DataPairs \cup UrlPairs \cup {<<"iframe", N_src>>}
    \/ cfg.no_js /\ IsEventAttr(name)

NoCoveredElement(dom) ==
    \A n \in Elements(dom) :
        /\ dom[n].name \notin CoveredTags
        /\ \A i \in DOMAIN dom[n].attrs : ~Covered(dom[n].name, dom[n].attrs[i].name)

\* C8: a walk never adds, removes, renames or reorders attributes, and it
\* leaves the value of every attribute whose tag/attribute pair the policy
\* table does not cover as it was (with scripts disabled the event-handler
\* attributes are covered); a document with no covered element serializes the
\* same before and after.
C8_Frame ==
    /\ \A n \in Elements(Final) :
          /\ n \in Elements(orig)
          /\ Final[n].name = orig[n].name
          /\ AttrNames(Final, n) = AttrNames(orig, n)
          /\ \A i \in DOMAIN Final[n].attrs :
                ~Covered(Final[n].name, Final[n].attrs[i].name) =>
                    Final[n].attrs[i].value = orig[n].attrs[i].value
    /\ NoCoveredElement(orig) => serialize(Final) = serialize(orig)

C8_Witness ==
    /\ status = "done"
    /\ Final # orig
    /\ \E n \in Elements(Final) :
          /\ Final[n].name = "p"
          /\ HasAttr(Final, n, N_src)
          /\ ValueOf(Final, n, N_src) = V_REL
    /\ \E e \in events : e.touched

ImageNode(n) ==
    \/ orig[n].name = "img" /\ HasAttr(orig, n, N_src) /\ ValueOf(orig, n, N_src) # EMPTY_STRING
    \/ orig[n].name = "link" /\ HasAttr(orig, n, N_href) /\ link_type(orig[n].attrs) = "icon"
    \/ orig[n].name = "source" /\ HasAttr(orig, n, N_srcset) /\ HolderName(n) = "picture"

ImageAttr(n) ==
    IF orig[n].name = "img" THEN N_src
    ELSE IF orig[n].name = "link" THEN N_href
    ELSE N_srcset

\* C9: with images disabled, after the walk every img src that was not empty,
\* every href of a link classified as icon and every srcset of a source
\* inside picture is exactly the transparent-pixel data URI, and no retrieval
\* was issued for any of these elements.
C9_Placeholder ==
    (status = "done" /\ cfg.no_images) =>
        \A n \in Elements(orig) :
            ImageNode(n) =>
                /\ ValueOf(Final, n, ImageAttr(n)) = TRANSPARENT_PIXEL
                /\ \A e \in events : (IsTop(e) /\ e.node = n) => e.reqs = <<>>

C9_Witness ==
    /\ status = "done"
    /\ cfg.no_images
    /\ \E n, m \in Elements(orig) :
          /\ orig[n].name = "source" /\ ImageNode(n)
          /\ orig[m].name = "img" /\ ImageNode(m)
    /\ \E e \in events : e.tag = "img" /\ e.touched

\* the events of the rules that must not load anything
C10_Events ==
    {e \in events :
        \/ e.tag \in {"iframe", "img"} /\ e.attr = N_src /\ e.old = EMPTY_STRING
        \/ e.tag \in {"a", "form"}
        \/ e.tag = "link" /\ IsTop(e) /\ link_type(orig[e.node].attrs) = ""}

C10_Quiet(e) ==
    /\ e.reqs = <<>>
    /\ ~e.nested
    /\ (e.tag \in {"iframe", "img"} =>
          /\ e.value = EMPTY_STRING
          /\ (status = "done" /\ IsTop(e)) => ValueOf(Final, e.node, N_src) = EMPTY_STRING)
    /\ (e.tag = "a" /\ e.attr = N_href /\ (starts_with(e.old, <<"#">>) \/ has_protocol(e.old))) =>
          e.value = e.old
    /\ (e.tag = "form" /\ e.attr = N_action /\ is_valid_url(e.old)) => e.value = e.old

\* C10 as stated: no retrieval and no nested walk for an iframe or img with
\* an empty src (which stays empty), for a, for form, or for a passthrough
\* link; there the attribute is only ever replaced by the resolved absolute
\* URL; an a href with '#' or a protocol and a valid absolute form action
\* stay as they are.
C10_Original ==
    \A e \in C10_Events :
        /\ C10_Quiet(e)
        /\ (IsTop(e) /\ e.tag \in {"a", "form", "link"} /\ e.value # e.old) =>
              /\ resolve_url(BASE, e.old).ok
              /\ e.value = resolve_url(BASE, e.old).val

\* C10 as amended: no retrieval and no nested walk for an iframe or img with
\* an empty src (which stays empty), for a, for form, or for a passthrough
\* link; there the attribute is only ever replaced by the resolved absolute
\* URL or, when the resolution fails, by the empty string; an a href with '#'
\* or a protocol and a valid absolute form action stay as they are.
C10_Amended ==
    \A e \in C10_Events :
        /\ C10_Quiet(e)
        /\ (IsTop(e) /\ e.tag \in {"a", "form", "link"} /\ e.value # e.old) =>
              e.value = unwrap_or(resolve_url(BASE, e.old), EMPTY_STRING)

C10_Witness ==
    /\ status = "done"
    /\ \E e \in C10_Events : IsTop(e) /\ e.tag = "iframe" /\ Followed(e.node)
    /\ \E e \in C10_Events :
          IsTop(e) /\ e.tag = "a" /\ e.touched /\ e.value = Join(BASE, V_REL)

\* C11: a walk started on a finite document terminates and yields output
\* whenever every retrieval returns and every frame document is finite, also
\* when frame documents hold iframes with a src (a page framing its own
\* URL): at every moment the walk is either going on (a call is being made
\* or is returning) or done with its output; it is never aborted.
C11_Terminates == status \in {"walk", "done"}

\* C12: a walk does not alter parent back-references: after the walk every
\* node still in the tree, the root Document excepted, has a back-reference
\* that points to the node holding it, so a parent-tag lookup on any element
\* (a source element the walk processed included) still succeeds.
C12_BackReferences ==
    status = "done" =>
        \A n \in (DOMAIN Final) \ {1} :
            /\ Final[n].parent # None
            /\ Final[n].parent = Container(Final, n)
            /\ Final[n].kind = "Element" => get_parent_node_name(Final, n) # PANIC

====
